---- MODULE Spec2Model ----
(***************************************************************************)
(* SmartFilter Auth API: the user table (src/models/user.py) and the       *)
(* request handlers (src/routes/user.py).                                  *)
(*                                                                         *)
(* Strings are sequences of one-character strings, so that strip(),        *)
(* lower() and the e-mail pattern are computed, not assumed.               *)
(* A request runs in its own database session: it reads the row it needs,  *)
(* changes its own in-memory object, and commits later.  Between the read  *)
(* and the commit other requests may run, so every handler that commits is *)
(* two steps (...Begin = everything up to db.session.commit(), ...Commit = *)
(* the commit and the response).  A commit writes the columns the request  *)
(* changed on its object, and the response is built from that object.      *)
(* A commit may fail in the store; the handler's except branch answers 500. *)
(***************************************************************************)
EXTENDS Integers, Sequences, FiniteSets, TLC

\* ------------------------------------------------------------- bounds
\* number of requests that may be in flight at once
NProc == 2
\* number of requests issued in one behaviour
MaxRequests == 2

Procs == 1..NProc

\* ------------------------------------------------------------- strings
UpperLetters == <<"A","B","C","D","E","F","G","H","I","J","K","L","M",
                  "N","O","P","Q","R","S","T","U","V","W","X","Y","Z">>
LowerLetters == <<"a","b","c","d","e","f","g","h","i","j","k","l","m",
                  "n","o","p","q","r","s","t","u","v","w","x","y","z">>
Digits == {"0","1","2","3","4","5","6","7","8","9"}
Whitespace == {" "}

Range(s) == {s[i] : i \in DOMAIN s}
Letters == Range(UpperLetters) \cup Range(LowerLetters)

\* str.lower() on one character
LowerChar(c) ==
  IF \E i \in DOMAIN UpperLetters : UpperLetters[i] = c
  THEN LowerLetters[CHOOSE i \in DOMAIN UpperLetters : UpperLetters[i] = c]
  ELSE c

\* str.lower()
Lower(s) == [i \in DOMAIN s |-> LowerChar(s[i])]

\* str.strip(): drop leading and trailing whitespace
Strip(s) ==
  LET keep == {i \in DOMAIN s : s[i] \notin Whitespace}
  IN  IF keep = {} THEN <<>>
      ELSE LET lo == CHOOSE i \in keep : \A j \in keep : i <= j
               hi == CHOOSE i \in keep : \A j \in keep : j <= i
           IN  SubSeq(s, lo, hi)

\* a normalisation that trims but forgets to lowercase
NormalizeEmail_NoLower(s) == Strip(s)

\* the email normalisation of register and login: .strip().lower()
NormalizeEmail(s) == Lower(Strip(s))

AllIn(s, lo, hi, class) == \A k \in lo..hi : s[k] \in class

\* re.match(r'^[a-zA-Z0-9._%+-]+@[a-zA-Z0-9.-]+\.[a-zA-Z]{2,}$', email)
LocalClass == Letters \cup Digits \cup {".", "_", "%", "+", "-"}
DomainClass == Letters \cup Digits \cup {".", "-"}
validate_email(email) ==
  LET n == Len(email)
  IN  \E at \in 1..n : \E dot \in 1..n :
        /\ 1 < at /\ at + 1 < dot /\ dot + 2 <= n
        /\ email[at] = "@" /\ email[dot] = "."
        /\ AllIn(email, 1, at - 1, LocalClass)
        /\ AllIn(email, at + 1, dot - 1, DomainClass)
        /\ AllIn(email, dot + 1, n, Letters)

\* validate_password: (is_valid, message)
validate_password(password) ==
  IF Len(password) < 6
  THEN <<FALSE, "Password must be at least 6 characters long">>
  ELSE <<TRUE, "Password is valid">>

\* a digest that looks at the first five characters only
generate_password_hash_Truncating(password) ==
  <<"digest", SubSeq(password, 1, IF Len(password) < 5 THEN Len(password) ELSE 5)>>

\* werkzeug's generate_password_hash / check_password_hash: a one-way
\* digest of the password and the verification against it
generate_password_hash(password) == <<"digest", password>>
check_password_hash(hash, password) == hash = generate_password_hash(password)

\* ------------------------------------------------------------- the table
NULL == <<>>
PlanFree == <<"f","r","e","e">>
PlanPro == <<"p","r","o">>
PlanPremium == <<"p","r","e","m","i","u","m">>
\* a list that also accepts a plan the service does not have
ValidPlans_WithGold == {PlanFree, PlanPro, PlanPremium, <<"g","o","l","d">>}

\* the list the upgrade handler accepts
ValidPlans == {PlanFree, PlanPro, PlanPremium}

\* a table whose credits column defaults to 0
NewUser_NoCredits(id, name, email, password_hash, t) ==
  [id |-> id, name |-> name, email |-> email,
   password_hash |-> password_hash,
   credits |-> 0, plan_type |-> PlanFree,
   created_at |-> <<t>>, last_login |-> NULL, is_active |-> TRUE]

\* a row of the user table as INSERT writes it: the column defaults of the
\* model fill what register does not set
NewUser(id, name, email, password_hash, t) ==
  [id |-> id, name |-> name, email |-> email,
   password_hash |-> password_hash,
   credits |-> 100, plan_type |-> PlanFree,
   created_at |-> <<t>>, last_login |-> NULL, is_active |-> TRUE]

\* "no object": what first() and get() return when there is no row
NoUser ==
  [id |-> 0, name |-> <<>>, email |-> <<>>, password_hash |-> <<>>,
   credits |-> 0, plan_type |-> <<>>, created_at |-> NULL,
   last_login |-> NULL, is_active |-> FALSE]

\* datetime.isoformat()
IsoFormat(dt) == <<"iso", dt[1]>>

\* a public view that forgets to leave the hash out
to_dict_WithHash(u) ==
  [id |-> u.id, name |-> u.name, email |-> u.email, credits |-> u.credits,
   plan_type |-> u.plan_type,
   created_at |-> IF u.created_at # NULL THEN IsoFormat(u.created_at) ELSE NULL,
   last_login |-> IF u.last_login # NULL THEN IsoFormat(u.last_login) ELSE NULL,
   is_active |-> u.is_active, password_hash |-> u.password_hash]

\* User.to_dict: the public view
to_dict(u) ==
  [id |-> u.id, name |-> u.name, email |-> u.email, credits |-> u.credits,
   plan_type |-> u.plan_type,
   created_at |-> IF u.created_at # NULL THEN IsoFormat(u.created_at) ELSE NULL,
   last_login |-> IF u.last_login # NULL THEN IsoFormat(u.last_login) ELSE NULL,
   is_active |-> u.is_active]

\* a use_credit that reports success without taking the credit
User_use_credit_NoDecrement(u) ==
  IF u.credits > 0 THEN <<TRUE, u>> ELSE <<FALSE, u>>

\* a use_credit that forgets the "credits > 0" test
User_use_credit_NoTest(u) == <<TRUE, [u EXCEPT !.credits = u.credits - 1]>>

\* User.use_credit: <<returned flag, object afterwards>>
User_use_credit(u) ==
  IF u.credits > 0 THEN <<TRUE, [u EXCEPT !.credits = u.credits - 1]>>
  ELSE <<FALSE, u>>

\* an add_credits that assigns instead of adding
User_add_credits_Assign(u, amount) == [u EXCEPT !.credits = amount]

\* User.add_credits
User_add_credits(u, amount) == [u EXCEPT !.credits = u.credits + amount]

\* User.check_password
User_check_password(u, password) == check_password_hash(u.password_hash, password)

\* ------------------------------------------------------------- requests
\* request bodies: a JSON object is a function from the keys it carries
Str_Al == <<"A","l">>
Email_A == <<" ","A","@","b",".","c","o">>
Email_a == <<"a","@","b",".","c","o">>
Email_z == <<"z","@","b",".","c","o">>
Email_bad == <<"a","@","b",".","c">>
Pw_short == <<"a","b","c","d","e">>
Pw_good == <<"a","b","c","d","e","f">>

NameInputs == {<<>>, <<" ">>, Str_Al}
EmailInputs == {<<>>, Email_A, Email_a, Email_z, Email_bad}
PasswordInputs == {<<>>, Pw_short, Pw_good}
AmountInputs == {-1, 0, 2}
PlanInputs == {<<"P","r","o">>, PlanPro, PlanPremium, PlanFree, <<"g","o","l","d">>}

RegisterBodies ==
  [name : NameInputs, email : EmailInputs, password : PasswordInputs]
    \cup {[email |-> Email_a, password |-> Pw_good],
          [name |-> Str_Al, password |-> Pw_good],
          [name |-> Str_Al, email |-> Email_a]}
LoginBodies ==
  [email : EmailInputs, password : PasswordInputs]
    \cup {[email |-> Email_z], [password |-> Pw_good]}
AmountBodies == [amount : AmountInputs] \cup {[k \in {} |-> 0]}
PlanBodies == [plan_type : PlanInputs] \cup {[k \in {} |-> <<>>]}

\* the handlers' string work on each input, worked out once per input
StrippedName == [n \in NameInputs |-> Strip(n)]
NormalizedEmail == [e \in EmailInputs |-> NormalizeEmail(e)]
EmailFormatOk == [e \in EmailInputs |-> validate_email(NormalizeEmail(e))]
PasswordCheck == [w \in PasswordInputs |-> validate_password(w)]

\* dict.get(key, default)
Get(data, key, default) == IF key \in DOMAIN data THEN data[key] ELSE default

\* responses: jsonify(...), status
NoBody == [k \in {} |-> 0]
NoResp == [status |-> 0, error |-> <<>>, message |-> <<>>, body |-> NoBody]
ErrorResp(status, error) ==
  [status |-> status, error |-> error, message |-> <<>>, body |-> NoBody]
OkResp(status, message, body) ==
  [status |-> status, error |-> <<>>, message |-> message, body |-> body]

\* ------------------------------------------------------------- state
VARIABLES
  users,   \* the user table: row i has id i (rows are never deleted)
  pc,      \* per request slot: "idle", "commit" (before the commit), "done"
  op,      \* per request slot: the handler it runs or ran
  seen,    \* per request slot: the row as the handler loaded it
  obj,     \* per request slot: the handler's in-memory User object
  resp,    \* per request slot: the response returned
  now,     \* the clock datetime.utcnow() reads
  nreq     \* requests issued so far

vars == <<users, pc, op, seen, obj, resp, now, nreq>>

UserIds == 1..(Len(users) + 1)

\* a table the service can have been left with by earlier requests: empty,
\* or one account that has used all its credits but one
SeedUser(active) ==
  [NewUser(1, <<"Z","e","d">>, Email_z, generate_password_hash(Pw_good), 0)
     EXCEPT !.credits = 1, !.is_active = active]
SeedTables == {<<>>} \cup {<<SeedUser(a)>> : a \in BOOLEAN}

Init ==
  /\ users \in SeedTables
  /\ pc = [p \in Procs |-> "idle"]
  /\ op = [p \in Procs |-> "none"]
  /\ seen = [p \in Procs |-> NoUser]
  /\ obj = [p \in Procs |-> NoUser]
  /\ resp = [p \in Procs |-> NoResp]
  /\ now = 0
  /\ nreq = 0

\* User.query.filter_by(email=email).first()
FindByEmail(table, email) ==
  IF \E i \in DOMAIN table : table[i].email = email
  THEN table[CHOOSE i \in DOMAIN table : table[i].email = email]
  ELSE NoUser

\* User.query.get(user_id)
GetById(table, user_id) ==
  IF user_id \in DOMAIN table THEN table[user_id] ELSE NoUser

\* a request arrives and takes the lowest free slot (slots are
\* interchangeable: slot p is used only while p - 1 requests are in flight)
CanStart(p) ==
  /\ pc[p] \in {"idle", "done"}
  /\ \A q \in Procs : q < p => pc[q] = "commit"
  /\ nreq < MaxRequests

\* a new request takes slot p: the slots of finished requests are cleared
\* (their responses went to their clients), those in flight stay
Take(p, state, name, response) ==
  /\ pc' = [q \in Procs |-> IF q = p THEN state
                             ELSE IF pc[q] = "commit" THEN "commit" ELSE "idle"]
  /\ op' = [q \in Procs |-> IF q = p THEN name
                             ELSE IF pc[q] = "commit" THEN op[q] ELSE "none"]
  /\ resp' = [q \in Procs |-> IF q = p THEN response
                               ELSE IF pc[q] = "commit" THEN resp[q] ELSE NoResp]
  /\ nreq' = nreq + 1

\* the handler returns without committing
Return(p, name, response) ==
  /\ Take(p, "done", name, response)
  /\ seen' = [seen EXCEPT ![p] = NoUser]
  /\ obj' = [obj EXCEPT ![p] = NoUser]

\* the handler reaches db.session.commit() with its object changed
Pending(p, name, loaded, changed) ==
  /\ Take(p, "commit", name, NoResp)
  /\ seen' = [seen EXCEPT ![p] = loaded]
  /\ obj' = [obj EXCEPT ![p] = changed]

\* the handler returns after db.session.commit()
Finish(p, response) ==
  /\ pc' = [pc EXCEPT ![p] = "done"]
  /\ seen' = [seen EXCEPT ![p] = NoUser]
  /\ obj' = [obj EXCEPT ![p] = NoUser]
  /\ resp' = [resp EXCEPT ![p] = response]
  /\ UNCHANGED <<op, nreq>>

\* an UPDATE that writes every column of the request's object
Flush_WholeRow(row, loaded, changed) == changed

\* UPDATE at commit: the columns the request changed on its object
Flush(row, loaded, changed) ==
  [f \in DOMAIN row |-> IF changed[f] # loaded[f] THEN changed[f] ELSE row[f]]

\* a table without the unique constraint on email
EmailUnique_NoConstraint(table, email) == TRUE

\* the unique constraint on user.email, checked by the INSERT
EmailUnique(table, email) == \A i \in DOMAIN table : table[i].email # email

\* datetime.utcnow(): the value the clock shows at its next reading (it has
\* microsecond resolution and never runs backwards: two readings differ)
UtcNow == {now + 1}

\* ------------------------------------------------------------- register
\* "if not data.get(field)": the key is absent or its value is empty
Falsy(v) == v = <<>>

\* a loop that reports the last missing field instead of the first
FirstMissing_Last(data, fields) ==
  LET miss == {i \in DOMAIN fields : Falsy(Get(data, fields[i], <<>>))}
  IN  IF miss = {} THEN <<>>
      ELSE <<fields[CHOOSE i \in miss : \A j \in miss : j <= i]>>

\* the first of the required fields that is missing, <<>> when none is
FirstMissing(data, fields) ==
  LET miss == {i \in DOMAIN fields : Falsy(Get(data, fields[i], <<>>))}
  IN  IF miss = {} THEN <<>>
      ELSE <<fields[CHOOSE i \in miss : \A j \in miss : i <= j]>>

\* register(), up to db.session.add(user)
Register(p, data) ==
  LET missing == FirstMissing(data, <<"name", "email", "password">>)
  IN
  /\ CanStart(p)
  /\ UNCHANGED <<users, now>>
  /\ IF missing # <<>>
     THEN Return(p, "register", ErrorResp(400, <<missing[1], " is required">>))
     ELSE
       LET name == StrippedName[data["name"]]
           email == NormalizedEmail[data["email"]]
           password == data["password"]
           checked == PasswordCheck[password]
           existing_user == FindByEmail(users, email)
           user == [NoUser EXCEPT !.name = name, !.email = email,
                      !.password_hash = generate_password_hash(password)]
       IN  IF ~EmailFormatOk[data["email"]]
           THEN Return(p, "register", ErrorResp(400, <<"Invalid email format">>))
           ELSE IF ~checked[1]
           THEN Return(p, "register", ErrorResp(400, <<checked[2]>>))
           ELSE IF existing_user # NoUser
           THEN Return(p, "register", ErrorResp(409, <<"Email already registered">>))
           ELSE Pending(p, "register", NoUser, user)

\* register(): db.session.commit() and the response, or the except branch
RegisterCommit(p) ==
  /\ pc[p] = "commit" /\ op[p] = "register"
  /\ \E ok \in BOOLEAN :
       IF ok /\ EmailUnique(users, obj[p].email)
       THEN \E t \in UtcNow :
              LET row == NewUser(Len(users) + 1, obj[p].name, obj[p].email,
                                 obj[p].password_hash, t)
              IN  /\ users' = Append(users, row)
                  /\ now' = t
                  /\ Finish(p, OkResp(201, <<"Account created successfully">>,
                                      [user |-> to_dict(row)]))
       ELSE \* IntegrityError or another store failure: rollback
            /\ UNCHANGED <<users, now>>
            /\ Finish(p, ErrorResp(500, <<"Registration failed">>))

\* ------------------------------------------------------------- login
\* a login that tells an unknown email apart from a wrong password
LoginFailure_Enumerating(user, password) ==
  IF user = NoUser
  THEN ErrorResp(404, <<"User not found">>)
  ELSE IF ~User_check_password(user, password)
  THEN ErrorResp(401, <<"Invalid email or password">>)
  ELSE IF ~user.is_active
  THEN ErrorResp(401, <<"Account is deactivated">>)
  ELSE NoResp

\* a login that forgets the is_active test
LoginFailure_NoActiveTest(user, password) ==
  IF user = NoUser \/ ~User_check_password(user, password)
  THEN ErrorResp(401, <<"Invalid email or password">>)
  ELSE NoResp

\* login(): the two rejections after the lookup, NoResp when the login goes on
LoginFailure(user, password) ==
  IF user = NoUser \/ ~User_check_password(user, password)
  THEN ErrorResp(401, <<"Invalid email or password">>)
  ELSE IF ~user.is_active
  THEN ErrorResp(401, <<"Account is deactivated">>)
  ELSE NoResp

\* login(), up to db.session.commit()
Login(p, data) ==
  /\ CanStart(p)
  /\ UNCHANGED users
  /\ IF Falsy(Get(data, "email", <<>>)) \/ Falsy(Get(data, "password", <<>>))
     THEN /\ UNCHANGED now
          /\ Return(p, "login", ErrorResp(400, <<"Email and password are required">>))
     ELSE
       LET email == NormalizedEmail[data["email"]]
           password == data["password"]
           user == FindByEmail(users, email)
           failure == LoginFailure(user, password)
       IN  IF failure # NoResp
           THEN /\ UNCHANGED now
                /\ Return(p, "login", failure)
           ELSE \E t \in UtcNow :
                  /\ now' = t
                  /\ Pending(p, "login", user, [user EXCEPT !.last_login = <<t>>])

\* a login whose failed commit leaves its write behind
LoginCommit_PartialWrite(p) ==
  /\ pc[p] = "commit" /\ op[p] = "login"
  /\ UNCHANGED now
  /\ users' = [users EXCEPT ![obj[p].id] = Flush(@, seen[p], obj[p])]
  /\ \E ok \in BOOLEAN :
       IF ok
       THEN Finish(p, OkResp(200, <<"Login successful">>,
                             [user |-> to_dict(obj[p])]))
       ELSE Finish(p, ErrorResp(500, <<"Login failed">>))

\* a login that answers without having written last_login
LoginCommit_NoWrite(p) ==
  /\ pc[p] = "commit" /\ op[p] = "login"
  /\ UNCHANGED <<now, users>>
  /\ \E ok \in BOOLEAN :
       IF ok
       THEN Finish(p, OkResp(200, <<"Login successful">>,
                             [user |-> to_dict(obj[p])]))
       ELSE Finish(p, ErrorResp(500, <<"Login failed">>))

\* login(): db.session.commit() and the response, or the except branch
\* (which has no rollback(): the request's session is discarded with the
\* request, and its pending change with it)
LoginCommit(p) ==
  /\ pc[p] = "commit" /\ op[p] = "login"
  /\ UNCHANGED now
  /\ \E ok \in BOOLEAN :
       IF ok
       THEN /\ users' = [users EXCEPT ![obj[p].id] = Flush(@, seen[p], obj[p])]
            /\ Finish(p, OkResp(200, <<"Login successful">>,
                                [user |-> to_dict(obj[p])]))
       ELSE /\ UNCHANGED users
            /\ Finish(p, ErrorResp(500, <<"Login failed">>))

\* ------------------------------------------------------------- reads
\* get_profile(user_id)
GetProfile(p, user_id) ==
  LET user == GetById(users, user_id)
  IN  /\ CanStart(p)
      /\ UNCHANGED <<users, now>>
      /\ IF user = NoUser
         THEN Return(p, "get_profile", ErrorResp(404, <<"User not found">>))
         ELSE Return(p, "get_profile", OkResp(200, <<>>, [user |-> to_dict(user)]))

\* check_credits(user_id)
CheckCredits(p, user_id) ==
  LET user == GetById(users, user_id)
  IN  /\ CanStart(p)
      /\ UNCHANGED <<users, now>>
      /\ IF user = NoUser
         THEN Return(p, "check_credits", ErrorResp(404, <<"User not found">>))
         ELSE Return(p, "check_credits",
                     OkResp(200, <<>>, [user_id |-> user.id, credits |-> user.credits,
                                        plan_type |-> user.plan_type]))

\* health_check()
HealthCheck(p) ==
  /\ CanStart(p)
  /\ UNCHANGED <<users, now>>
  /\ Return(p, "health_check",
            OkResp(200, <<>>, [status |-> "healthy", service |-> "SmartFilter Auth API"]))

\* ------------------------------------------------------------- credits
\* use_credit(user_id), up to db.session.commit()
UseCredit(p, user_id) ==
  LET user == GetById(users, user_id)
      used == User_use_credit(user)
  IN  /\ CanStart(p)
      /\ UNCHANGED <<users, now>>
      /\ IF user = NoUser
         THEN Return(p, "use_credit", ErrorResp(404, <<"User not found">>))
         ELSE IF used[1]
         THEN Pending(p, "use_credit", user, used[2])
         ELSE Return(p, "use_credit", ErrorResp(400, <<"No credits remaining">>))

\* use_credit(): db.session.commit() and the response, or the except branch
UseCreditCommit(p) ==
  /\ pc[p] = "commit" /\ op[p] = "use_credit"
  /\ UNCHANGED now
  /\ \E ok \in BOOLEAN :
       IF ok
       THEN /\ users' = [users EXCEPT ![obj[p].id] = Flush(@, seen[p], obj[p])]
            /\ Finish(p, OkResp(200, <<"Credit used successfully">>,
                                [remaining_credits |-> obj[p].credits]))
       ELSE /\ UNCHANGED users
            /\ Finish(p, ErrorResp(500, <<"Failed to use credit">>))

\* add_credits(user_id), up to db.session.commit()
AddCredits(p, user_id, data) ==
  LET amount == Get(data, "amount", 0)
      user == GetById(users, user_id)
  IN  /\ CanStart(p)
      /\ UNCHANGED <<users, now>>
      /\ IF amount <= 0
         THEN Return(p, "add_credits", ErrorResp(400, <<"Invalid credit amount">>))
         ELSE IF user = NoUser
         THEN Return(p, "add_credits", ErrorResp(404, <<"User not found">>))
         ELSE Pending(p, "add_credits", user, User_add_credits(user, amount))

\* add_credits(): db.session.commit() and the response, or the except branch
AddCreditsCommit(p) ==
  /\ pc[p] = "commit" /\ op[p] = "add_credits"
  /\ UNCHANGED now
  /\ \E ok \in BOOLEAN :
       IF ok
       THEN /\ users' = [users EXCEPT ![obj[p].id] = Flush(@, seen[p], obj[p])]
            /\ Finish(p, OkResp(200, <<"credits added successfully">>,
                                [amount |-> obj[p].credits - seen[p].credits,
                                 total_credits |-> obj[p].credits]))
       ELSE /\ UNCHANGED users
            /\ Finish(p, ErrorResp(500, <<"Failed to add credits">>))

\* ------------------------------------------------------------- plans
\* the two bonuses the wrong way round
PlanBonus_Swapped(new_plan) ==
  IF new_plan = PlanPro THEN 1000
  ELSE IF new_plan = PlanPremium THEN 500
  ELSE 0

\* the credits a plan grants on upgrade
PlanBonus(new_plan) ==
  IF new_plan = PlanPro THEN 500
  ELSE IF new_plan = PlanPremium THEN 1000
  ELSE 0

\* upgrade_plan(user_id), up to db.session.commit()
UpgradePlan(p, user_id, data) ==
  LET new_plan == Lower(Get(data, "plan_type", <<>>))
      user == GetById(users, user_id)
      planned == [user EXCEPT !.plan_type = new_plan]
  IN  /\ CanStart(p)
      /\ UNCHANGED <<users, now>>
      /\ IF new_plan \notin ValidPlans
         THEN Return(p, "upgrade_plan", ErrorResp(400, <<"Invalid plan type">>))
         ELSE IF user = NoUser
         THEN Return(p, "upgrade_plan", ErrorResp(404, <<"User not found">>))
         ELSE Pending(p, "upgrade_plan", user,
                      IF new_plan \in {PlanPro, PlanPremium}
                      THEN User_add_credits(planned, PlanBonus(new_plan))
                      ELSE planned)

\* upgrade_plan(): db.session.commit() and the response, or the except branch
UpgradePlanCommit(p) ==
  /\ pc[p] = "commit" /\ op[p] = "upgrade_plan"
  /\ UNCHANGED now
  /\ \E ok \in BOOLEAN :
       IF ok
       THEN /\ users' = [users EXCEPT ![obj[p].id] = Flush(@, seen[p], obj[p])]
            /\ Finish(p, OkResp(200, <<"Plan upgraded to ", obj[p].plan_type>>,
                                [user |-> to_dict(obj[p])]))
       ELSE /\ UNCHANGED users
            /\ Finish(p, ErrorResp(500, <<"Failed to upgrade plan">>))

\* ------------------------------------------------------------- system
Next ==
  \/ \E p \in Procs : \E data \in RegisterBodies : Register(p, data)
  \/ \E p \in Procs : RegisterCommit(p)
  \/ \E p \in Procs : \E data \in LoginBodies : Login(p, data)
  \/ \E p \in Procs : LoginCommit(p)
  \/ \E p \in Procs : \E user_id \in UserIds : GetProfile(p, user_id)
  \/ \E p \in Procs : \E user_id \in UserIds : CheckCredits(p, user_id)
  \/ \E p \in Procs : HealthCheck(p)
  \/ \E p \in Procs : \E user_id \in UserIds : UseCredit(p, user_id)
  \/ \E p \in Procs : UseCreditCommit(p)
  \/ \E p \in Procs : \E user_id \in UserIds : \E data \in AmountBodies :
        AddCredits(p, user_id, data)
  \/ \E p \in Procs : AddCreditsCommit(p)
  \/ \E p \in Procs : \E user_id \in UserIds : \E data \in PlanBodies :
        UpgradePlan(p, user_id, data)
  \/ \E p \in Procs : UpgradePlanCommit(p)

Spec == Init /\ [][Next]_vars

\* ============================================================= claims
Done(p, name) == pc[p] = "done" /\ op[p] = name
InFlight(p, name) == pc[p] = "commit" /\ op[p] = name

C2_ExactlyOneSuccess ==
  ( /\ nreq = NProc
    /\ Len(users) = 1
    /\ \A p \in Procs : Done(p, "use_credit") /\ resp[p].status \in {200, 400} )
  => /\ Cardinality({p \in Procs : resp[p].status = 200}) = 1
     /\ \A p \in Procs : resp[p].status = 400
           => resp[p].error = <<"No credits remaining">>
     /\ users[1].credits = 0

\* C3: in every reachable state, also under concurrent registrations of the
\* same normalized email, no two stored users have the same email.
C3_EmailUnique ==
  \A i, j \in DOMAIN users : users[i].email = users[j].email => i = j

\* C3 witness: two registrations of the same normalized email were in
\* flight together; one has created the account, the other is about to commit.
C3_Witness ==
  \E p, q \in Procs :
    /\ Done(p, "register") /\ resp[p].status = 201
    /\ InFlight(q, "register")
    /\ obj[q].email = resp[p].body.user.email

\* ------------------------------------------------------------- C4 .. C7
\* trimming and lowercasing, as the claims speak of it
TrimLower(s) == Lower(Strip(s))
\* the body carries a non-empty value under the key
Present(data, key) == key \in DOMAIN data /\ data[key] # <<>>
\* no request is between its read and its commit
Quiet == \A q \in Procs : pc[q] # "commit"
\* no other request is between its read and its commit
Alone(p) == \A q \in Procs : q # p => pc[q] # "commit"
\* the row a request loaded is still what the table holds
Untouched(p) == users[seen[p].id] = seen[p]
\* every row but row i is left as it was
OthersUnchanged(i) ==
  /\ Len(users') = Len(users)
  /\ \A j \in DOMAIN users : j # i => users'[j] = users[j]

\* this step is slot p taking a new request for the handler
Starts(p, name) == CanStart(p) /\ nreq' = nreq + 1 /\ op'[p] = name
\* this step is slot p finishing the handler's commit
Commits(p, name) == InFlight(p, name) /\ pc'[p] = "done"

\* each email a client may send, trimmed and lowercased
Trimmed == [e \in EmailInputs |-> TrimLower(e)]

\* the emails that, trimmed and lowercased, match the email pattern
WellFormed == {e \in EmailInputs : validate_email(TrimLower(e))}

\* a registration that passes every input check
ValidRegistration(data) ==
  /\ Present(data, "name") /\ Present(data, "email") /\ Present(data, "password")
  /\ Len(data["password"]) >= 6
  /\ data["email"] \in WellFormed

\* C4: of two otherwise valid registrations issued one after the other with
\* emails equal after trimming and lowercasing, the first succeeds with 201
\* (unless the store fails) and the second is answered 409 Conflict, and
\* exactly one user with that email exists afterwards.
C4_SequentialDuplicate ==
  [][\A p \in Procs :
       /\ (Starts(p, "register") /\ Quiet) => \A data \in RegisterBodies :
            (ValidRegistration(data) /\ Register(p, data)) =>
              IF \E i \in DOMAIN users :
                   TrimLower(users[i].email) = TrimLower(data["email"])
              THEN /\ resp'[p] = ErrorResp(409, <<"Email already registered">>)
                   /\ pc'[p] = "done"
                   /\ users' = users
              ELSE /\ pc'[p] = "commit"
                   /\ obj'[p].email = TrimLower(data["email"])
                   /\ users' = users
       /\ ( Commits(p, "register") /\ Alone(p) /\ resp'[p].status # 500
            /\ RegisterCommit(p) ) =>
            /\ resp'[p].status = 201
            /\ Len(users') = Len(users) + 1
            /\ Cardinality({i \in DOMAIN users' :
                              TrimLower(users'[i].email) = obj[p].email}) = 1
    ]_vars

\* C4 witness: on an empty table a registration has created the account and
\* the next registration of that email has been answered 409.
C4_Witness ==
  \E p \in Procs :
    /\ Done(p, "register") /\ resp[p].status = 409
    /\ nreq = 2 /\ Len(users) = 1 /\ users[1].email = Email_a
    /\ users[1].name = Str_Al

\* C5: every registration that returns success creates exactly one new user
\* with credits 100, plan free, is_active true and last_login null, and the
\* returned public view shows credits 100 and plan_type "free".
C5_RegisterDefaults ==
  [][\A p \in Procs :
       (Commits(p, "register") /\ resp'[p].status = 201 /\ RegisterCommit(p)) =>
         /\ Len(users') = Len(users) + 1
         /\ SubSeq(users', 1, Len(users)) = users
         /\ LET u == users'[Len(users')]
                view == resp'[p].body.user
            IN  /\ u.credits = 100 /\ u.plan_type = <<"f","r","e","e">>
                /\ u.is_active = TRUE /\ u.last_login = <<>>
                /\ view.id = u.id /\ view.email = u.email
                /\ view.credits = 100 /\ view.plan_type = <<"f","r","e","e">>
    ]_vars

\* C5 witness: a registration has returned 201 with the new user's view.
C5_Witness ==
  \E p \in Procs :
    /\ Done(p, "register") /\ resp[p].status = 201
    /\ resp[p].body.user.id = Len(users)

\* the login names no registered email
Unregistered(data) ==
  \A i \in DOMAIN users : users[i].email # TrimLower(data["email"])
\* the login names a registered email with a password that is not its own
WrongPassword(data) ==
  \E i \in DOMAIN users :
    /\ users[i].email = TrimLower(data["email"])
    /\ ~check_password_hash(users[i].password_hash, data["password"])
\* the login names a deactivated account with its own password
DeactivatedRightPassword(data) ==
  \E i \in DOMAIN users :
    /\ users[i].email = TrimLower(data["email"])
    /\ check_password_hash(users[i].password_hash, data["password"])
    /\ ~users[i].is_active
FullLogin(data) == Present(data, "email") /\ Present(data, "password")

\* C6: a login for an unregistered email and a login with a wrong password
\* get the same response, so the response does not tell whether the email
\* exists; neither changes stored state.  (The step taken for one such login
\* is also the step for every other such login in that state.)
C6_NoEnumeration ==
  [][\A p \in Procs :
       ( Starts(p, "login")
         /\ \E d1 \in LoginBodies :
              /\ FullLogin(d1) /\ (Unregistered(d1) \/ WrongPassword(d1))
              /\ Login(p, d1) ) =>
         /\ users' = users
         /\ pc'[p] = "done"
         /\ resp'[p].status = 401
         /\ \A d2 \in LoginBodies :
              (FullLogin(d2) /\ (Unregistered(d2) \/ WrongPassword(d2)))
                => Login(p, d2)
    ]_vars

\* C6 witness: a login has been refused with 401 on a table that holds an
\* account (so both an unknown email and a wrong password can be tried).
C6_Witness ==
  \E p \in Procs :
    /\ Done(p, "login") /\ resp[p].status = 401
    /\ resp[p].error = <<"Invalid email or password">>
    /\ Len(users) >= 1

C8_UseCredit ==
  [][\A p \in Procs :
       /\ (Starts(p, "use_credit") /\ Quiet) => \A user_id \in UserIds :
            UseCredit(p, user_id) =>
              /\ users' = users
              /\ IF user_id \notin DOMAIN users
                 THEN resp'[p] = ErrorResp(404, <<"User not found">>)
                        /\ pc'[p] = "done"
                 ELSE IF users[user_id].credits = 0
                 THEN resp'[p] = ErrorResp(400, <<"No credits remaining">>)
                        /\ pc'[p] = "done"
                 ELSE pc'[p] = "commit" /\ seen'[p] = users[user_id]
       /\ ( Commits(p, "use_credit") /\ Alone(p) /\ Untouched(p)
            /\ resp'[p].status # 500 /\ UseCreditCommit(p) ) =>
            LET c == users[seen[p].id].credits
            IN  /\ c > 0
                /\ resp'[p].status = 200
                /\ resp'[p].body.remaining_credits = c - 1
                /\ users'[seen[p].id] = [users[seen[p].id] EXCEPT !.credits = c - 1]
                /\ OthersUnchanged(seen[p].id)
    ]_vars

\* C8 witness: an account with one credit has used it and the next
\* use-credit has been refused, the balance staying at 0.
C8_Witness ==
  \E p \in Procs :
    /\ Done(p, "use_credit") /\ resp[p].error = <<"No credits remaining">>
    /\ nreq = 2 /\ Len(users) = 1 /\ users[1].credits = 0

\* the amount an add-credits body asks for (none given counts as 0)
AmountOf(data) == IF "amount" \in DOMAIN data THEN data["amount"] ELSE 0

\* C9: add-credits with amount <= 0, or with no amount, returns
\* InvalidAmount and changes nothing, also when the id has no user; with an
\* amount a > 0 on an id with no user it returns NotFound; with a > 0 on an
\* existing user with credits c (and no concurrent request on it, and no
\* store failure) it stores credits c+a and returns total_credits c+a.
C9_AddCredits ==
  [][\A p \in Procs :
       /\ Starts(p, "add_credits") =>
            \A user_id \in UserIds : \A data \in AmountBodies :
              AddCredits(p, user_id, data) =>
                /\ users' = users
                /\ IF AmountOf(data) <= 0
                   THEN resp'[p] = ErrorResp(400, <<"Invalid credit amount">>)
                          /\ pc'[p] = "done"
                   ELSE IF user_id \notin DOMAIN users
                   THEN resp'[p] = ErrorResp(404, <<"User not found">>)
                          /\ pc'[p] = "done"
                   ELSE /\ pc'[p] = "commit" /\ seen'[p] = users[user_id]
                        /\ obj'[p].credits = users[user_id].credits + AmountOf(data)
       /\ ( Commits(p, "add_credits") /\ Alone(p) /\ Untouched(p)
            /\ resp'[p].status # 500 /\ AddCreditsCommit(p) ) =>
            /\ resp'[p].status = 200
            /\ resp'[p].body.total_credits = obj[p].credits
            /\ users'[seen[p].id] =
                 [users[seen[p].id] EXCEPT !.credits = obj[p].credits]
            /\ OthersUnchanged(seen[p].id)
    ]_vars

\* C9 witness: 2 credits have been added to the account that had 1.
C9_Witness ==
  \E p \in Procs :
    /\ Done(p, "add_credits") /\ resp[p].status = 200
    /\ resp[p].body.total_credits = 3
    /\ Len(users) = 1 /\ users[1].credits = 3

\* the bonus the claim gives each plan
ClaimedBonus(plan) ==
  IF plan = <<"p","r","o">> THEN 500
  ELSE IF plan = <<"p","r","e","m","i","u","m">> THEN 1000
  ELSE 0

\* C10: every upgrade-plan with a valid plan on an existing user sets
\* plan_type to the lowercased plan and raises credits by exactly 500 for
\* pro, 1000 for premium and 0 for free, whatever the prior plan (the same
\* plan again and a downgrade included); so k upgrades to pro in a row add
\* 500*k.  (The commit part is for a request with no other on that user and
\* no store failure.)
C10_UpgradeBonus ==
  [][\A p \in Procs :
       /\ Starts(p, "upgrade_plan") =>
            \A user_id \in DOMAIN users : \A data \in PlanBodies :
              ( Present(data, "plan_type")
                /\ Lower(data["plan_type"]) \in
                     {<<"f","r","e","e">>, <<"p","r","o">>,
                      <<"p","r","e","m","i","u","m">>}
                /\ UpgradePlan(p, user_id, data) ) =>
                /\ pc'[p] = "commit" /\ seen'[p] = users[user_id]
                /\ obj'[p].plan_type = Lower(data["plan_type"])
                /\ obj'[p].credits =
                     users[user_id].credits + ClaimedBonus(Lower(data["plan_type"]))
       /\ ( Commits(p, "upgrade_plan") /\ Alone(p) /\ Untouched(p)
            /\ resp'[p].status # 500 /\ UpgradePlanCommit(p) ) =>
            /\ resp'[p].status = 200
            /\ users'[seen[p].id] =
                 [users[seen[p].id] EXCEPT !.plan_type = obj[p].plan_type,
                                           !.credits = obj[p].credits]
            /\ users'[seen[p].id].credits - users[seen[p].id].credits
                 = ClaimedBonus(users'[seen[p].id].plan_type)
            /\ OthersUnchanged(seen[p].id)
    ]_vars

\* C10 witness: two upgrades to pro in a row (the second on a user who is
\* already pro) have taken the account from 1 credit to 1001.
C10_Witness ==
  \E p \in Procs :
    /\ Done(p, "upgrade_plan") /\ resp[p].status = 200
    /\ nreq = 2 /\ Len(users) = 1
    /\ users[1].plan_type = <<"p","r","o">> /\ users[1].credits = 1001

\* ------------------------------------------------------------- C11 .. C15
\* the three plans the claims name
ThreePlans == {<<"f","r","e","e">>, <<"p","r","o">>, <<"p","r","e","m","i","u","m">>}

\* C11: in every reachable state every stored user's plan_type is one of
\* free, pro, premium; an upgrade-plan whose plan is none of the three
\* (compared case-insensitively), or that carries no plan, returns
\* InvalidPlan (400 "Invalid plan type") and leaves every user unchanged.
C11_PlanEnum ==
  /\ [](\A i \in DOMAIN users : users[i].plan_type \in ThreePlans)
  /\ [][\A p \in Procs :
          Starts(p, "upgrade_plan") =>
            \A user_id \in UserIds : \A data \in PlanBodies :
              ( /\ ~Present(data, "plan_type")
                     \/ Lower(data["plan_type"]) \notin ThreePlans
                /\ UpgradePlan(p, user_id, data) ) =>
                /\ resp'[p] = ErrorResp(400, <<"Invalid plan type">>)
                /\ pc'[p] = "done"
                /\ users' = users
       ]_vars

\* C11 witness: an upgrade-plan has been refused as InvalidPlan on a table
\* that holds an account, whose plan is still free.
C11_Witness ==
  \E p \in Procs :
    /\ Done(p, "upgrade_plan") /\ resp[p].error = <<"Invalid plan type">>
    /\ Len(users) >= 1 /\ users[1].plan_type = <<"f","r","e","e">>

\* the fields of the public view
PublicFields ==
  {"id", "name", "email", "credits", "plan_type", "created_at", "last_login",
   "is_active"}
\* the password hashes the service holds, stored or about to be stored, and
\* the passwords clients send
Secrets ==
  {users[i].password_hash : i \in DOMAIN users}
    \cup {obj[q].password_hash : q \in {r \in Procs : pc[r] = "commit"}}
    \cup (PasswordInputs \ {<<>>})

\* C12: no response of any endpoint, success or error, carries a password
\* hash or a plaintext password, as a field or as the text of its error or
\* message; the public view in a response has exactly the fields id, name,
\* email, credits, plan_type, created_at, last_login, is_active.
C12_NoPasswordInResponses ==
  \A p \in Procs :
    LET r == resp[p]
    IN  /\ DOMAIN r.body \cap {"password", "password_hash"} = {}
        /\ r.error \notin Secrets /\ r.message \notin Secrets
        /\ "user" \in DOMAIN r.body =>
             /\ DOMAIN r.body.user = PublicFields
             /\ r.body.user.name \notin Secrets
             /\ r.body.user.email \notin Secrets
             /\ r.body.user.plan_type \notin Secrets

\* C12 witness: a login has succeeded and its response carries the public
\* view of the account, whose hash the table holds.
C12_Witness ==
  \E p \in Procs :
    /\ Done(p, "login") /\ resp[p].status = 200
    /\ resp[p].body.user.id = 1 /\ users[1].password_hash # <<>>

\* the operations that write to the store, and the message each gives when
\* the store fails
Mutating == {"register", "login", "use_credit", "add_credits", "upgrade_plan"}
FailureMessage(name) ==
  CASE name = "register" -> <<"Registration failed">>
    [] name = "login" -> <<"Login failed">>
    [] name = "use_credit" -> <<"Failed to use credit">>
    [] name = "add_credits" -> <<"Failed to add credits">>
    [] name = "upgrade_plan" -> <<"Failed to upgrade plan">>

\* C13: when the store fails while a mutating operation persists its change,
\* the caller gets that operation's generic 500 failure, the stored users
\* are exactly as they were (the request wrote nothing before either), the
\* request's pending object is gone, and a later request starts from the
\* stored rows, not from a change left pending.
C13_StoreFailureRollsBack ==
  [][\A p \in Procs :
       /\ (pc[p] = "commit" /\ pc'[p] = "done" /\ resp'[p].status = 500) =>
            /\ op[p] \in Mutating
            /\ resp'[p] = ErrorResp(500, FailureMessage(op[p]))
            /\ users' = users
            /\ obj'[p] = NoUser /\ seen'[p] = NoUser
       /\ (CanStart(p) /\ nreq' = nreq + 1 /\ op'[p] \in Mutating) =>
            /\ users' = users
            /\ (pc'[p] = "commit" /\ op'[p] # "register") =>
                 seen'[p] = users[seen'[p].id]
    ]_vars

\* C13 witness: the store has failed under a login; the caller got 500 and
\* the account's last_login is still null.
C13_Witness ==
  \E p \in Procs :
    /\ Done(p, "login") /\ resp[p] = ErrorResp(500, <<"Login failed">>)
    /\ Len(users) >= 1 /\ users[1].last_login = <<>>

\* C14: in every reachable state every stored user's name is non-empty
\* after trimming (a registration whose name is empty after trimming is
\* rejected and creates no user).
C14_NameNonEmpty ==
  \A i \in DOMAIN users : Strip(users[i].name) # <<>>

\* the body carries a value of whitespace only under the key (what becomes
\* of such a value is C14's matter)
Blank(data, key) ==
  key \in DOMAIN data /\ data[key] # <<>> /\ Strip(data[key]) = <<>>

\* the registrations the claim is checked on: no value of whitespace only
OrderBodies ==
  {body : body \in
     {data \in RegisterBodies :
        ~Blank(data, "name") /\ ~Blank(data, "email") /\ ~Blank(data, "password")}}

\* the rejection the claimed order of input checks gives each registration,
\* NoResp when it passes them all
ClaimedInputRejection ==
  [data \in OrderBodies |->
     IF ~Present(data, "name") THEN ErrorResp(400, <<"name", " is required">>)
     ELSE IF ~Present(data, "email")
     THEN ErrorResp(400, <<"email", " is required">>)
     ELSE IF ~Present(data, "password")
     THEN ErrorResp(400, <<"password", " is required">>)
     ELSE IF data["email"] \notin WellFormed
     THEN ErrorResp(400, <<"Invalid email format">>)
     ELSE IF Len(data["password"]) < 6
     THEN ErrorResp(400, <<"Password must be at least 6 characters long">>)
     ELSE NoResp]

\* the rejection the claimed order gives a registration: the input checks,
\* then Conflict; NoResp when it passes them all
ClaimedRejection(data) ==
  IF ClaimedInputRejection[data] # NoResp THEN ClaimedInputRejection[data]
  ELSE IF \E i \in DOMAIN users : users[i].email = Trimmed[data["email"]]
  THEN ErrorResp(409, <<"Email already registered">>)
  ELSE NoResp

\* C15: registration checks its input in a fixed order and reports only the
\* first failure: the first missing field of name, email, password, then
\* InvalidEmailFormat, then WeakPassword, then Conflict (so a malformed email
\* with a short password gets InvalidEmailFormat and a registered email with
\* a short password gets WeakPassword); a rejected request creates no user.
C15_ValidationOrder ==
  [][\A p \in Procs :
       Starts(p, "register") =>
         /\ users' = users
         /\ \A data \in OrderBodies :
              Register(p, data) =>
                LET rejection == ClaimedRejection(data)
                IN  IF rejection # NoResp
                    THEN resp'[p] = rejection /\ pc'[p] = "done"
                    ELSE pc'[p] = "commit"
    ]_vars

\* C15 witness: a registration has been refused as WeakPassword on a table
\* that holds an account (whose email the request may have named).
C15_Witness ==
  \E p \in Procs :
    /\ Done(p, "register")
    /\ resp[p].error = <<"Password must be at least 6 characters long">>
    /\ Len(users) >= 1

\* ------------------------------------------------------------- C16 .. C20
\* C16: when two registrations of the same normalized email run
\* concurrently (both pass the existence check before either commits), the
\* one that does not create the account is answered Conflict (409), as a
\* sequential duplicate is, and creates nothing.  (The step is the commit of
\* a registration whose email another request has stored meanwhile.)
C16_ConcurrentDuplicateConflict ==
  [][\A p \in Procs :
       ( Commits(p, "register")
         /\ \E i \in DOMAIN users : users[i].email = obj[p].email ) =>
         /\ resp'[p] = ErrorResp(409, <<"Email already registered">>)
         /\ users' = users
    ]_vars

\* what a successful credit request adds to the balance, by its response
ClaimedDelta(name, response) ==
  CASE name = "use_credit" -> 0 - 1
    [] name = "add_credits" -> response.body.amount
    [] name = "upgrade_plan" -> ClaimedBonus(response.body.user.plan_type)

\* C17: for one user, after any interleaving of concurrent use-credit,
\* add-credits and upgrade-plan requests, the stored credits is the initial
\* balance plus the amounts of the successful add-credits, plus the bonuses
\* of the successful upgrades, minus the number of successful use-credits:
\* no grant or consumption is lost or counted twice.  (Step by step: every
\* such request that succeeds moves the stored balance by exactly its own
\* amount.)
C17_CreditsLedger ==
  [][\A p \in Procs :
       ( /\ pc[p] = "commit" /\ pc'[p] = "done"
         /\ op[p] \in {"use_credit", "add_credits", "upgrade_plan"}
         /\ resp'[p].status = 200 ) =>
         users'[seen[p].id].credits =
           users[seen[p].id].credits + ClaimedDelta(op[p], resp'[p])
    ]_vars

\* timestamps: a is null, or a is not later than b
TimeLeq(a, b) == a = <<>> \/ (b # <<>> /\ a[1] <= b[1])
\* the login names a registered, active account with its own password
GoodLogin(data) ==
  /\ FullLogin(data)
  /\ \E i \in DOMAIN users :
       /\ users[i].email = Trimmed[data["email"]]
       /\ check_password_hash(users[i].password_hash, data["password"])
       /\ users[i].is_active

\* one step of slot p, seen as a login: a login goes on to set last_login
\* exactly when it names a registered active account with its password; the
\* time it sets is read during the request (later than the time before the
\* call, not earlier than created_at or than the last_login it read); the
\* commit writes last_login of that user and nothing else; a login that
\* fails writes nothing.  always: the time written is required to be no
\* earlier than the stored last_login whatever ran in between; otherwise
\* only when the row is still as the request read it.
LoginStep(p, always) ==
  /\ Starts(p, "login") =>
       /\ users' = users
       /\ \A data \in LoginBodies :
            Login(p, data) => (pc'[p] = "commit" <=> GoodLogin(data))
       /\ pc'[p] = "commit" =>
            /\ seen'[p] = users[seen'[p].id]
            /\ obj'[p] = [seen'[p] EXCEPT !.last_login = <<now'>>]
            /\ now' >= now
            /\ TimeLeq(seen'[p].last_login, obj'[p].last_login)
            /\ TimeLeq(seen'[p].created_at, obj'[p].last_login)
  /\ Commits(p, "login") =>
       IF resp'[p].status = 200
       THEN /\ users'[seen[p].id] =
                 [users[seen[p].id] EXCEPT !.last_login = obj[p].last_login]
            /\ OthersUnchanged(seen[p].id)
            /\ resp'[p].body.user.id = seen[p].id
            /\ TimeLeq(users'[seen[p].id].created_at, users'[seen[p].id].last_login)
            /\ (always \/ Untouched(p)) =>
                 TimeLeq(users[seen[p].id].last_login, users'[seen[p].id].last_login)
       ELSE users' = users

\* C18 (as claimed): a successful login sets the user's last_login to the
\* current time, which is >= its previous value and >= created_at, and
\* leaves the user's other fields and every other user unchanged; a failed
\* login changes nothing.
C18_LastLoginNeverEarlier ==
  [][\A p \in Procs : LoginStep(p, TRUE)]_vars

\* C18 (amended): as claimed, except that the time written is the one the
\* request read before its commit: it is >= the time before the call, >=
\* created_at and >= the last_login the request read, and >= the stored
\* last_login when no other login of that user committed in between.
C18_LoginFrame ==
  [][\A p \in Procs : LoginStep(p, FALSE)]_vars

\* C18 witness: a login has succeeded and the account's last_login is the
\* time in the returned view.
C18_Witness ==
  \E p \in Procs :
    /\ Done(p, "login") /\ resp[p].status = 200
    /\ Len(users) >= 1 /\ users[1].last_login # <<>>
    /\ resp[p].body.user.last_login = <<"iso", users[1].last_login[1]>>

\* the fields no operation may change once the user exists
FixedFields == {"id", "email", "name", "created_at", "password_hash"}
\* the fields the credit and plan operations may change
CreditFields == {"credits", "plan_type"}

\* C19: once a user is created no operation removes it or changes its id,
\* email, name, created_at or password_hash: the table only grows and no id
\* is used twice; use-credit, add-credits and upgrade-plan change at most
\* credits and plan_type of the addressed user; profile and check-credits
\* change nothing.
C19_CreatedUsersStay ==
  [][/\ Len(users') >= Len(users)
     /\ \A i \in DOMAIN users : \A f \in FixedFields : users'[i][f] = users[i][f]
     /\ \A i, j \in DOMAIN users' : users'[i].id = users'[j].id => i = j
     /\ \A p \in Procs :
          /\ ( pc[p] = "commit" /\ pc'[p] = "done"
               /\ op[p] \in {"use_credit", "add_credits", "upgrade_plan"} ) =>
               /\ OthersUnchanged(seen[p].id)
               /\ \A f \in DOMAIN users[seen[p].id] \ CreditFields :
                    users'[seen[p].id][f] = users[seen[p].id][f]
          /\ ( CanStart(p) /\ nreq' = nreq + 1
               /\ op'[p] \in {"get_profile", "check_credits", "use_credit",
                               "add_credits", "upgrade_plan"} ) =>
               users' = users
    ]_vars

\* C19 witness: a second account has been created next to the first and
\* credits have been added to it; both rows keep their ids.
C19_Witness ==
  \E p \in Procs :
    /\ Done(p, "add_credits") /\ resp[p].status = 200
    /\ Len(users) = 2 /\ users[1].id = 1 /\ users[2].id = 2
    /\ users[2].credits = 102

\* C20: register followed by login round-trips.  A registration that passes
\* the checks keeps the trimmed, lowercased email and a hash that verifies
\* its password and no other; its commit stores them under the id it
\* returns; a login with any email equal to a stored one after trimming and
\* lowercasing and a password the stored hash verifies goes on (the account
\* being active) and, unless the store fails, succeeds with that user's id;
\* with a password the hash does not verify it is refused as
\* InvalidCredentials.
C20_RegisterLoginRoundTrip ==
  [][\A p \in Procs :
       /\ (Starts(p, "register") /\ pc'[p] = "commit") =>
            \A data \in RegisterBodies :
            (ValidRegistration(data) /\ Register(p, data)) =>
              /\ obj'[p].email = Trimmed[data["email"]]
              /\ \A w \in PasswordInputs :
                   check_password_hash(obj'[p].password_hash, w)
                     <=> w = data["password"]
       /\ (Commits(p, "register") /\ resp'[p].status = 201) =>
            LET u == users'[Len(users')]
            IN  /\ Len(users') = Len(users) + 1
                /\ u.email = obj[p].email
                /\ u.password_hash = obj[p].password_hash
                /\ u.is_active
                /\ resp'[p].body.user.id = u.id
       /\ Starts(p, "login") => \A data \in LoginBodies : \A i \in DOMAIN users :
            ( /\ FullLogin(data)
              /\ users[i].email = Trimmed[data["email"]]
              /\ Login(p, data) ) =>
              IF ~check_password_hash(users[i].password_hash, data["password"])
              THEN /\ resp'[p] = ErrorResp(401, <<"Invalid email or password">>)
                   /\ pc'[p] = "done"
              ELSE users[i].is_active =>
                     pc'[p] = "commit" /\ seen'[p].id = users[i].id
       /\ (Commits(p, "login") /\ resp'[p].status # 500) =>
            /\ resp'[p].status = 200
            /\ resp'[p].body.user.id = seen[p].id
            /\ resp'[p].body.user.email = users[seen[p].id].email
    ]_vars

\* C20 witness: an account has been registered and the login that followed
\* has succeeded with the id the registration gave it.
C20_Witness ==
  \E p \in Procs :
    /\ Done(p, "login") /\ resp[p].status = 200 /\ nreq = 2
    /\ Len(users) >= 1 /\ users[Len(users)].created_at # <<0>>
    /\ resp[p].body.user.id = Len(users)

====
